---------------------------- MODULE Spec2Model ----------------------------
(***************************************************************************)
(* Model of the clicker-game server: the WebSocket session map `clients`,  *)
(* the message handlers (setName, tap, buy, chat with /ban and /bro), the  *)
(* close handler, the auto-income interval, the icon upload endpoint and   *)
(* the SQLite tables players, bans and chat.                               *)
(*                                                                         *)
(* The repository holds two revisions of the server, src/unnamed/part_000  *)
(* and src/server/index.js.  The variable `variant` says which one runs;   *)
(* it is chosen in Init and the operators that differ between the two      *)
(* revisions branch on it.                                                 *)
(*                                                                         *)
(* JavaScript values are tuples: a string is the tuple of its characters,  *)
(* null and undefined are the one-element tuples NULL and UNDEFINED whose  *)
(* element is no character, so that === is plain equality.                 *)
(***************************************************************************)
EXTENDS Integers, Sequences, FiniteSets, TLC

VARIABLES
  variant,      \* which revision of the server is running
  running,      \* the Node process is alive; FALSE once an exception went uncaught
  clients,      \* Map ws -> nickname | null; its domain is the connected sockets
  readyState,   \* ws.readyState of every connected socket: "OPEN" or "CLOSING"
  players,      \* table players: nickname -> row
  bans,         \* table bans: the set of banned nicknames
  chat,         \* table chat: the rows in insertion (id) order
  nTaps,        \* number of tap updates run so far (bounds the exploration)
  nTicks,       \* number of interval firings so far (bounds the exploration)
  last,         \* the event the last step handled: the message as received, or the timer, close or upload
  acct,         \* history: per player, the counters at its last purchase and what was credited since
  out           \* what the last step sent: its sendTo, broadcast and close calls, in order

vars == <<variant, running, clients, readyState, players, bans, chat, nTaps, nTicks, acct, last, out>>

-----------------------------------------------------------------------------
(* Bounds of the exploration *)

MaxTaps == 2
MaxTicks == 1
MaxChat == 1

(* Program constants *)

NameMax == 32
TextMax == 500

NULL == <<"null">>
UNDEFINED == <<"undefined">>

Conns == {"ws1", "ws2"}

PART0 == "part_000"
SERVER == "server/index.js"
Variants == {PART0, SERVER}

-----------------------------------------------------------------------------
(* Strings *)

Str_bob == <<"b", "o", "b">>
Str_admin == <<"a", "d", "m", "i", "n">>
Str_undefined == <<"u", "n", "d", "e", "f", "i", "n", "e", "d">>
Str_hi == <<"h", "i">>
Str_ban == <<"/", "b", "a", "n">>
Str_bro == <<"/", "b", "r", "o">>
Str_Admin == <<"A", "d", "m", "i", "n">>
Str_who == <<"/", "w", "h", "o">>

IsSpace(ch) == ch = " "

LowerChar(ch) ==
  CASE ch = "A" -> "a"
    [] ch = "B" -> "b"
    [] ch = "D" -> "d"
    [] ch = "N" -> "n"
    [] ch = "O" -> "o"
    [] ch = "R" -> "r"
    [] OTHER -> ch

\* String.prototype.toLowerCase
ToLowerCase(s) == [i \in 1..Len(s) |-> LowerChar(s[i])]

RECURSIVE TrimStart(_)
TrimStart(s) == IF s # <<>> /\ IsSpace(Head(s)) THEN TrimStart(Tail(s)) ELSE s

RECURSIVE TrimEnd(_)
TrimEnd(s) ==
  IF s # <<>> /\ IsSpace(s[Len(s)]) THEN TrimEnd(SubSeq(s, 1, Len(s) - 1)) ELSE s

\* String.prototype.trim
Trim(s) == TrimEnd(TrimStart(s))

\* String.prototype.slice(0, n)
Slice0(s, n) == IF Len(s) <= n THEN s ELSE SubSeq(s, 1, n)

\* String.prototype.startsWith, for a one-character prefix
StartsWith(s, ch) == s # <<>> /\ Head(s) = ch

\* String(v)
String(v) == IF v = UNDEFINED THEN Str_undefined ELSE v

\* v || '' : undefined and the empty string are falsy
OrEmpty(v) == IF v = UNDEFINED \/ v = <<>> THEN <<>> ELSE v

\* s.split(/\s+/) : the pieces between maximal runs of whitespace
RECURSIVE SplitWs(_, _, _)
SplitWs(s, cur, inGap) ==
  IF s = <<>> THEN <<cur>>
  ELSE IF IsSpace(Head(s))
       THEN IF inGap THEN SplitWs(Tail(s), cur, TRUE)
                     ELSE <<cur>> \o SplitWs(Tail(s), <<>>, TRUE)
       ELSE SplitWs(Tail(s), Append(cur, Head(s)), FALSE)

Split(s) == SplitWs(s, <<>>, FALSE)

\* parts[i], undefined past the end
Part(parts, i) == IF i <= Len(parts) THEN parts[i] ELSE UNDEFINED

Truthy(v) == v # UNDEFINED /\ v # NULL /\ v # <<>>

-----------------------------------------------------------------------------
(* Configuration and catalog *)

Tok_part0 == <<"change-admin-token">>
Tok_server == <<"admin-token-change-me">>

\* const ADMIN_TOKEN = process.env.ADMIN_TOKEN || '...'
ADMIN_TOKEN == IF variant = PART0 THEN Tok_part0 ELSE Tok_server

Id_cheapUp == <<"cheapUp">>
Id_midUp == <<"midUp">>
Id_auto1 == <<"auto1">>
Id_auto5 == <<"auto5">>
Id_nope == <<"nope">>

SHOP_DEFAULTS ==
  { [id |-> Id_cheapUp, price |-> 10, type |-> "tap", value |-> 1],
    [id |-> Id_midUp, price |-> 45, type |-> "tap", value |-> 5],
    [id |-> Id_auto1, price |-> 30, type |-> "auto", value |-> 1],
    [id |-> Id_auto5, price |-> 130, type |-> "auto", value |-> 5] }

\* SELECT ... FROM shop_items WHERE id = ?
HasItem(itemId) == \E it \in SHOP_DEFAULTS : it.id = itemId

FindItem(itemId) == CHOOSE it \in SHOP_DEFAULTS : it.id = itemId


-----------------------------------------------------------------------------
(* Prepared statements *)

\* findPlayer.get(nickname): the row; HasPlayer tells whether it is defined
HasPlayer(P, nickname) == nickname \in DOMAIN P

FindPlayer(P, nickname) == P[nickname]

NewRow(icon) ==
  [coins |-> 0, tap_value |-> 1, auto_per_sec |-> 0, taps |-> 0, icon |-> icon]

\* createPlayer.run({nickname, coins: 0, tap_value: 1, auto_per_sec: 0, taps: 0, icon})
CreatePlayer(P, nickname, icon) ==
  [n \in DOMAIN P \cup {nickname} |-> IF n = nickname THEN NewRow(icon) ELSE P[n]]

\* updatePlayerCoinsTap.run({coins, tap_value, auto_per_sec, taps, icon, nickname})
UpdatePlayerCoinsTap(P, nickname, row) ==
  [n \in DOMAIN P |-> IF n = nickname THEN row ELSE P[n]]

\* (mutant) the statement writes the value read instead of adding it
UpdatePlayerAfterTap_Overwrite(P, nickname, val) ==
  [n \in DOMAIN P |->
     IF n = nickname
     THEN [P[n] EXCEPT !.coins = val, !.taps = @ + 1]
     ELSE P[n]]

\* UPDATE players SET coins=coins+@val, taps=taps+1 WHERE nickname=@nickname
UpdatePlayerAfterTap(P, nickname, val) ==
  [n \in DOMAIN P |->
     IF n = nickname
     THEN [P[n] EXCEPT !.coins = @ + val, !.taps = @ + 1]
     ELSE P[n]]

\* UPDATE players SET coins=coins+@val WHERE nickname=@nickname
UpdatePlayerAfterAuto(P, nickname, val) ==
  [n \in DOMAIN P |-> IF n = nickname THEN [P[n] EXCEPT !.coins = @ + val] ELSE P[n]]

\* (mutant) the ban is looked up through the players table
FindBan_KnownPlayers(B, nickname) == nickname \in B /\ nickname \in DOMAIN players

\* findBan.get(nickname): truthy iff a row exists
FindBan(B, nickname) == nickname \in B

\* INSERT OR REPLACE INTO bans (nickname, reason) VALUES (?, 'banned by admin')
AddBan(B, target) == B \cup {target}

\* DELETE FROM bans WHERE nickname = ?
RemoveBan(B, target) == B \ {target}

\* getTopRank.all() and listPlayers.all(): the same columns of every row
\* (the model keeps the rows as a set; fewer than 100 players exist)
PlayerRows(P) ==
  { [nickname |-> n, coins |-> P[n].coins, taps |-> P[n].taps, icon |-> P[n].icon] :
      n \in DOMAIN P }

-----------------------------------------------------------------------------
(* Fanout *)

\* sendTo(ws, obj): one call; the object is sent only if the socket is OPEN
SendTo(rs, ws, msg) ==
  << [op |-> "sendTo", to |-> ws, msg |-> msg, sent |-> (rs[ws] = "OPEN")] >>

\* broadcast(obj): one call; every OPEN socket of wss.clients receives it
Broadcast(rs, msg) ==
  << [op |-> "broadcast", to |-> {c \in DOMAIN rs : rs[c] = "OPEN"}, msg |-> msg] >>

\* (mutant) the rankings and the player list go out as two broadcasts
BroadcastPlayersAndRanks_Twice(rs, P) ==
  Broadcast(rs, [type |-> "ranks", rows |-> PlayerRows(P)])
  \o Broadcast(rs, [type |-> "ranks", rows |-> PlayerRows(P)])

\* broadcastPlayersAndRanks()
BroadcastPlayersAndRanks(rs, P) ==
  Broadcast(rs, [type |-> "ranks", rows |-> PlayerRows(P)])

\* ws.close(): an OPEN socket starts the closing handshake; the 'close' event
\* comes later, and until then the socket still delivers incoming messages
CloseCall(rs, ws) == [rs EXCEPT ![ws] = "CLOSING"]

-----------------------------------------------------------------------------
(* History kept for the tap accounting: the counters of a player when its   *)
(* row was created or last written by a purchase, and the taps and the      *)
(* interval income credited since.                                          *)

AcctOf(row) ==
  [c0 |-> row.coins, t0 |-> row.taps, v |-> row.tap_value, n |-> 0, inc |-> 0]

AcctSet(A, nickname, row) ==
  [k \in DOMAIN A \cup {nickname} |-> IF k = nickname THEN AcctOf(row) ELSE A[k]]

-----------------------------------------------------------------------------
(* Inputs *)

Str_al == <<"a", "l">>

Txt_hi == <<" ">> \o Str_hi
Txt_ban_bob == Str_ban \o <<" ">> \o Str_bob
Txt_bro_bob == Str_bro \o <<" ">> \o Str_bob
Txt_ban_admin == Str_ban \o <<" ", " ">> \o Str_admin

\* What the clients of one exploration send.  Sessions explores the session map
\* and the moderation commands over a database whose counters stay put;
\* Economy explores taps, purchases, ticks and uploads of two plain players.
Sessions ==
  [ names |-> {<<" ">>, <<" ">> \o Str_bob \o <<" ">>, Str_admin},
    tokens |-> {UNDEFINED, Tok_part0, Tok_server},
    items |-> {Id_nope, Id_cheapUp},
    texts |-> {UNDEFINED, Txt_hi, Txt_ban_bob, Txt_bro_bob, Txt_ban_admin},
    uploads |-> {UNDEFINED},
    stamps |-> {"1"},
    exts |-> {".png"} ]

Economy ==
  [ names |-> {Str_bob, Str_al},
    tokens |-> {UNDEFINED},
    items |-> {UNDEFINED, Id_cheapUp, Id_auto1, Id_auto5},
    texts |-> {UNDEFINED},
    uploads |-> {UNDEFINED, Str_bob},
    stamps |-> {"1", "2"},
    exts |-> {".png"} ]

\* Moderation explores the administrator's commands, sent by the session that
\* holds "admin" and by one that holds "Admin", and payloads that are no message.
Raw_garbage == "{"
Raw_null == "null"
Raw_dance == "{\"type\":\"dance\"}"

Moderation ==
  [ names |-> {Str_admin, Str_Admin},
    tokens |-> {Tok_part0, Tok_server},
    items |-> {Id_nope},
    texts |-> {Str_who, Str_ban \o <<" ">>, Txt_ban_bob, Txt_bro_bob},
    uploads |-> {UNDEFINED},
    stamps |-> {"1"},
    exts |-> {".png"},
    payloads |-> {Raw_garbage, Raw_null, Raw_dance} ]

\* Income explores the interval over two players who can both afford auto income
Income ==
  [ names |-> {Str_bob, Str_al},
    tokens |-> {UNDEFINED},
    items |-> {Id_auto1},
    texts |-> {UNDEFINED},
    uploads |-> {UNDEFINED},
    stamps |-> {"1"},
    exts |-> {".png"} ]

\* Solo explores every handler over the one player bob: taps, a purchase,
\* chats, the interval and icon uploads in all their orders
Solo ==
  [ names |-> {Str_bob},
    tokens |-> {UNDEFINED},
    items |-> {Id_auto1},
    texts |-> {Txt_hi},
    uploads |-> {Str_bob},
    stamps |-> {"1", "2"},
    exts |-> {".png"} ]

\* Lockout explores bans of the administrator's own nickname: the clients know
\* the token and try both spellings of the name and the command that unbans it
Txt_bro_admin == Str_bro \o <<" ">> \o Str_admin

Lockout ==
  [ names |-> {Str_admin, Str_Admin},
    tokens |-> {Tok_part0, Tok_server},
    items |-> {Id_nope},
    texts |-> {Txt_ban_admin, Txt_bro_admin},
    uploads |-> {Str_admin},
    stamps |-> {"1"},
    exts |-> {".png"} ]

\* A database left by an earlier run in which bob tapped 30 times
SeedRow ==
  [coins |-> 30, tap_value |-> 1, auto_per_sec |-> 0, taps |-> 30, icon |-> NULL]

EmptyMap == [x \in {} |-> NULL]

-----------------------------------------------------------------------------
(* wss.on('connection') *)

Connection(ws) ==
  /\ ws \notin DOMAIN clients
  /\ running
  /\ last' = [ev |-> "connection", ws |-> ws]
  /\ clients' = [c \in DOMAIN clients \cup {ws} |-> IF c = ws THEN NULL ELSE clients[c]]
  /\ readyState' = [c \in DOMAIN clients \cup {ws} |->
                      IF c = ws THEN "OPEN" ELSE readyState[c]]
  /\ out' = SendTo(readyState', ws,
                   [type |-> "init", shop |-> SHOP_DEFAULTS,
                    ranks |-> PlayerRows(players), chats |-> chat])
  /\ UNCHANGED <<variant, running, players, bans, chat, nTaps, nTicks, acct>>

-----------------------------------------------------------------------------
(* ws.on('message'): setName *)

\* const nickname = String(data.nickname || '').trim().slice(0,32)   (part_000)
\* const nickname = String(data.nickname).trim().slice(0,32)         (server/index.js)
NormalizeName(raw) ==
  Slice0(Trim(String(IF variant = PART0 THEN OrEmpty(raw) ELSE raw)), NameMax)

\* (mutant) an absent token is let through
AdminAuthFails_AbsentPasses(nickname, token) ==
  ToLowerCase(nickname) = Str_admin /\ token # UNDEFINED /\ token # ADMIN_TOKEN

\* nickname.toLowerCase() === 'admin' && data.adminToken !== ADMIN_TOKEN
AdminAuthFails(nickname, token) ==
  ToLowerCase(nickname) = Str_admin /\ token # ADMIN_TOKEN

\* (mutant) only sockets that are still OPEN count as holders
InUse_OpenOnly(nickname) ==
  \E c \in DOMAIN clients : clients[c] = nickname /\ readyState[c] = "OPEN"

\* Array.from(clients.values()).some(n => n === nickname)
InUse(nickname) == \E c \in DOMAIN clients : clients[c] = nickname

\* (mutant) the ban is looked up before the administrator's token
SetNameReason_BanFirst(nickname, token) ==
  IF ~Truthy(nickname) THEN "empty"
  ELSE IF FindBan(bans, nickname) THEN "banned"
  ELSE IF AdminAuthFails(nickname, token) THEN "admin_auth"
  ELSE IF InUse(nickname) THEN "inuse"
  ELSE "ok"

\* the checks of the setName branch, in the order of the code
SetNameReason(nickname, token) ==
  IF ~Truthy(nickname) THEN "empty"
  ELSE IF AdminAuthFails(nickname, token) THEN "admin_auth"
  ELSE IF FindBan(bans, nickname) THEN "banned"
  ELSE IF InUse(nickname) THEN "inuse"
  ELSE "ok"

\* (mutant) the player row is created before the request is validated
SetName_CreateFirst(ws, raw, token) ==
  /\ ws \in DOMAIN clients
  /\ running
  /\ last' = [ev |-> "setName", ws |-> ws, nickname |-> raw, adminToken |-> token]
  /\ LET nickname == NormalizeName(raw)
         reason == SetNameReason(nickname, token)
         created == Truthy(nickname) /\ ~HasPlayer(players, nickname)
     IN /\ players' = IF created THEN CreatePlayer(players, nickname, NULL) ELSE players
        /\ acct' = IF created THEN AcctSet(acct, nickname, NewRow(NULL)) ELSE acct
        /\ IF reason # "ok"
           THEN /\ out' = SendTo(readyState, ws,
                            [type |-> "setNameResult", ok |-> FALSE, reason |-> reason])
                /\ UNCHANGED clients
           ELSE /\ clients' = [clients EXCEPT ![ws] = nickname]
                /\ out' = SendTo(readyState, ws,
                            [type |-> "setNameResult", ok |-> TRUE, nickname |-> nickname])
                          \o BroadcastPlayersAndRanks(readyState, players')
  /\ UNCHANGED <<variant, running, readyState, bans, chat, nTaps, nTicks>>

SetName(ws, raw, token) ==
  /\ ws \in DOMAIN clients
  /\ running
  /\ last' = [ev |-> "setName", ws |-> ws, nickname |-> raw, adminToken |-> token]
  /\ LET nickname == NormalizeName(raw)
         reason == SetNameReason(nickname, token)
         created == ~HasPlayer(players, nickname)
     IN IF reason # "ok"
           THEN /\ out' = SendTo(readyState, ws,
                            [type |-> "setNameResult", ok |-> FALSE, reason |-> reason])
                /\ UNCHANGED <<clients, players, acct>>
           ELSE /\ players' = IF created THEN CreatePlayer(players, nickname, NULL)
                                         ELSE players
                /\ acct' = IF created THEN AcctSet(acct, nickname, NewRow(NULL)) ELSE acct
                /\ clients' = [clients EXCEPT ![ws] = nickname]
                /\ out' = SendTo(readyState, ws,
                            [type |-> "setNameResult", ok |-> TRUE, nickname |-> nickname])
                          \o BroadcastPlayersAndRanks(readyState, players')
  /\ UNCHANGED <<variant, running, readyState, bans, chat, nTaps, nTicks>>

-----------------------------------------------------------------------------
(* ws.on('message'): the identity gate, then tap *)

NotNamed(ws) == SendTo(readyState, ws, [type |-> "error", error |-> "not_named"])

\* (mutant) the gate tests for undefined only, and null passes
Named_NotUndefined(ws) == clients[ws] # UNDEFINED

\* const nickname = clients.get(ws); if (!nickname) ...
Named(ws) == Truthy(clients[ws])

\* (mutant) the event carries the row read before the update
TapMsg_Stale(nickname, row) ==
  [type |-> "tap", nickname |-> nickname, coins |-> row.coins - row.tap_value,
   taps |-> row.taps - 1, tap_value |-> row.tap_value]

\* { type: 'tap', nickname, coins, taps, tap_value } of the row read back
TapMsg(nickname, row) ==
  [type |-> "tap", nickname |-> nickname, coins |-> row.coins, taps |-> row.taps,
   tap_value |-> row.tap_value]

Tap(ws) ==
  /\ ws \in DOMAIN clients
  /\ running
  /\ last' = [ev |-> "tap", ws |-> ws]
  /\ LET nickname == clients[ws]
         player == FindPlayer(players, nickname)
         found == HasPlayer(players, nickname)
     IN IF ~Named(ws)
        THEN /\ out' = NotNamed(ws)
             /\ UNCHANGED <<players, acct, nTaps>>
        ELSE IF ~found
        THEN /\ out' = <<>>
             /\ UNCHANGED <<players, acct, nTaps>>
        ELSE /\ nTaps < MaxTaps
             /\ nTaps' = nTaps + 1
             /\ players' = UpdatePlayerAfterTap(players, nickname, player.tap_value)
             /\ acct' = [acct EXCEPT ![nickname].n = @ + 1]
             /\ out' = Broadcast(readyState, TapMsg(nickname, players'[nickname]))
  /\ UNCHANGED <<variant, running, clients, readyState, bans, chat, nTicks>>

-----------------------------------------------------------------------------
(* ws.on('message'): buy *)

\* const itemId = String(data.itemId || '')   (part_000)
\* const itemId = String(data.itemId)         (server/index.js)
ItemIdOf(raw) == String(IF variant = PART0 THEN OrEmpty(raw) ELSE raw)

\* (mutant) the funds are compared with the item's value instead of its price
BuyReason_Value(itemId, player) ==
  IF ~HasItem(itemId) THEN "invalid"
  ELSE IF player.coins < FindItem(itemId).value THEN "not_enough"
  ELSE "ok"

\* if (!item) invalid; if (player.coins < item.price) not_enough
BuyReason(itemId, player) ==
  IF ~HasItem(itemId) THEN "invalid"
  ELSE IF player.coins < FindItem(itemId).price THEN "not_enough"
  ELSE "ok"

\* (mutant) the purchase writes back the icon the row was created with
BuyRow_StaleIcon(player, item) ==
  [coins |-> player.coins - item.price,
   tap_value |-> IF item.type = "tap" THEN player.tap_value + item.value
                                      ELSE player.tap_value,
   auto_per_sec |-> IF item.type = "auto" THEN player.auto_per_sec + item.value
                                          ELSE player.auto_per_sec,
   taps |-> player.taps,
   icon |-> NULL]

\* (mutant) the item's kind is not looked at: both counters are raised
BuyRow_BothKinds(player, item) ==
  [coins |-> player.coins - item.price,
   tap_value |-> player.tap_value + item.value,
   auto_per_sec |-> player.auto_per_sec + item.value,
   taps |-> player.taps,
   icon |-> player.icon]

\* newCoins, newTap, newAuto and the untouched taps and icon of the row read
BuyRow(player, item) ==
  [coins |-> player.coins - item.price,
   tap_value |-> IF item.type = "tap" THEN player.tap_value + item.value
                                      ELSE player.tap_value,
   auto_per_sec |-> IF item.type = "auto" THEN player.auto_per_sec + item.value
                                          ELSE player.auto_per_sec,
   taps |-> player.taps,
   icon |-> player.icon]

BuyOkMsg(nickname, row) ==
  [type |-> "buyResult", ok |-> TRUE,
   user |-> [nickname |-> nickname, coins |-> row.coins, tap_value |-> row.tap_value,
             auto_per_sec |-> row.auto_per_sec]]

Buy(ws, raw) ==
  /\ ws \in DOMAIN clients
  /\ running
  /\ last' = [ev |-> "buy", ws |-> ws, itemId |-> raw]
  /\ LET nickname == clients[ws]
         itemId == ItemIdOf(raw)
         item == FindItem(itemId)
         player == FindPlayer(players, nickname)
     IN IF ~Named(ws)
        THEN /\ out' = NotNamed(ws)
             /\ UNCHANGED <<players, acct>>
        ELSE \* a named session always has a row: rows are never deleted
             /\ HasPlayer(players, nickname)
             /\ LET reason == BuyReason(itemId, player)
                IN /\ IF reason # "ok"
                      THEN /\ out' = SendTo(readyState, ws,
                                       [type |-> "buyResult", ok |-> FALSE,
                                        reason |-> reason])
                           /\ UNCHANGED <<players, acct>>
                      ELSE /\ players' = UpdatePlayerCoinsTap(players, nickname,
                                                              BuyRow(player, item))
                           /\ acct' = AcctSet(acct, nickname, players'[nickname])
                           /\ out' = SendTo(readyState, ws,
                                            BuyOkMsg(nickname, players'[nickname]))
                                     \o BroadcastPlayersAndRanks(readyState, players')
  /\ UNCHANGED <<variant, running, clients, readyState, bans, chat, nTaps, nTicks>>

-----------------------------------------------------------------------------
(* ws.on('message'): chat and the administrator's commands *)

\* String(data.text || '').slice(0,500).trim()
ChatText(raw) == Trim(Slice0(String(OrEmpty(raw)), TextMax))

Str_is_banned == <<" ", "i", "s", " ", "b", "a", "n", "n", "e", "d">>
Str_is_unbanned == <<" ", "i", "s", " ", "u", "n", "b", "a", "n", "n", "e", "d">>

\* (mutant) the administrator is recognised whatever the case of the letters
ChatDispatch_AnyCase(nickname, text) ==
  IF ToLowerCase(nickname) = Str_admin /\ StartsWith(text, "/")
  THEN LET parts == Split(text)
           cmd == ToLowerCase(Part(parts, 1))
           target == Part(parts, 2)
       IN IF cmd = Str_ban /\ Truthy(target) THEN "ban"
          ELSE IF cmd = Str_bro /\ Truthy(target) THEN "bro"
          ELSE "chat"
  ELSE "chat"

\* What the chat branch does with a non-empty text:
\*   "ban", "bro"  the command is run
\*   "ignored"     the command branch returns without doing anything
\*   "chat"        the text is recorded and broadcast
ChatDispatch(nickname, text) ==
  IF nickname = Str_admin /\ StartsWith(text, "/")
  THEN LET parts == Split(text)
           cmd == ToLowerCase(Part(parts, 1))
           target == Part(parts, 2)
       IN IF variant = PART0
          THEN IF cmd = Str_ban /\ Truthy(target) THEN "ban"
               ELSE IF cmd = Str_bro /\ Truthy(target) THEN "bro"
               ELSE "chat"
          ELSE IF cmd = Str_ban THEN (IF Truthy(target) THEN "ban" ELSE "ignored")
               ELSE IF cmd = Str_bro THEN (IF Truthy(target) THEN "bro" ELSE "ignored")
               ELSE "chat"
  ELSE "chat"

\* const target = parts[1]
TargetOf(text) == Part(Split(text), 2)

\* a set as a sequence; the sockets holding one nickname are at most one
RECURSIVE SeqOfSet(_)
SeqOfSet(S) ==
  IF S = {} THEN <<>> ELSE LET x == CHOOSE y \in S : TRUE IN <<x>> \o SeqOfSet(S \ {x})

\* for (const [c, n] of clients.entries()) if (n === target) { sendTo(c, banned); c.close(); }
RECURSIVE KickOut(_, _)
KickOut(cs, target) ==
  IF cs = <<>> THEN <<>>
  ELSE SendTo(readyState, Head(cs), [type |-> "banned", nickname |-> target])
       \o << [op |-> "close", ws |-> Head(cs)] >>
       \o KickOut(Tail(cs), target)

Holders(target) == {c \in DOMAIN clients : clients[c] = target}

RECURSIVE CloseAll(_, _)
CloseAll(rs, cs) == IF cs = <<>> THEN rs ELSE CloseAll(CloseCall(rs, Head(cs)), Tail(cs))

ChatRow(nickname, text) ==
  [nickname |-> nickname,
      icon |-> IF HasPlayer(players, nickname) THEN FindPlayer(players, nickname).icon
                                               ELSE NULL,
   text |-> text]

Chat(ws, raw) ==
  /\ ws \in DOMAIN clients
  /\ running
  /\ last' = [ev |-> "chat", ws |-> ws, text |-> raw]
  /\ LET nickname == clients[ws]
         text == ChatText(raw)
         what == IF ~Named(ws) THEN "not_named"
                 ELSE IF ~Truthy(text) THEN "dropped"
                 ELSE ChatDispatch(nickname, text)
         target == TargetOf(text)
         kicked == SeqOfSet(Holders(target))
     IN /\ CASE what = "not_named" ->
                  /\ out' = NotNamed(ws)
                  /\ UNCHANGED <<readyState, bans, chat>>
             [] what \in {"dropped", "ignored"} ->
                  /\ out' = <<>>
                  /\ UNCHANGED <<readyState, bans, chat>>
             [] what = "ban" ->
                  /\ bans' = AddBan(bans, target)
                  /\ readyState' = CloseAll(readyState, kicked)
                  /\ out' = KickOut(kicked, target)
                            \o Broadcast(readyState',
                                 [type |-> "system", text |-> target \o Str_is_banned])
                  /\ UNCHANGED chat
             [] what = "bro" ->
                  /\ bans' = RemoveBan(bans, target)
                  /\ out' = Broadcast(readyState,
                                 [type |-> "system", text |-> target \o Str_is_unbanned])
                  /\ UNCHANGED <<readyState, chat>>
             [] what = "chat" ->
                  /\ Len(chat) < MaxChat
                  /\ chat' = Append(chat, ChatRow(nickname, text))
                  /\ out' = Broadcast(readyState,
                                 [type |-> "chat", nickname |-> nickname,
                                  icon |-> ChatRow(nickname, text).icon, text |-> text])
                  /\ UNCHANGED <<readyState, bans>>
  /\ UNCHANGED <<variant, running, clients, players, nTaps, nTicks, acct>>

-----------------------------------------------------------------------------
(* ws.on('message'): payloads that are none of setName, tap, buy, chat *)

\* JSON.parse(raw): throws on text that is no JSON; otherwise the value, of
\* which the handler reads only .type
JsonParse(raw) ==
  CASE raw = Raw_garbage -> [threw |-> TRUE, json |-> "none", type |-> UNDEFINED]
    [] raw = Raw_null -> [threw |-> FALSE, json |-> "null", type |-> UNDEFINED]
    [] raw = Raw_dance -> [threw |-> FALSE, json |-> "object", type |-> <<"dance">>]

\* data.type throws a TypeError when data is null
ReadTypeThrows(parsed) == parsed.json = "null"

OtherMessage(ws, raw) ==
  /\ ws \in DOMAIN clients
  /\ running
  /\ last' = [ev |-> "message", ws |-> ws, raw |-> raw]
  /\ LET parsed == JsonParse(raw)
     IN IF parsed.threw
        THEN \* catch (e) { return; }
             /\ out' = <<>>
             /\ UNCHANGED <<running, clients, readyState>>
        ELSE IF ReadTypeThrows(parsed)
        THEN \* nothing catches the TypeError: the process exits, and with it
             \* the session map and every socket
             /\ running' = FALSE
             /\ clients' = EmptyMap
             /\ readyState' = EmptyMap
             /\ out' = << [op |-> "throw", error |-> "TypeError"] >>
        ELSE \* no branch matches the type: the identity gate, then nothing
             /\ out' = IF ~Named(ws) THEN NotNamed(ws) ELSE <<>>
             /\ UNCHANGED <<running, clients, readyState>>
  /\ UNCHANGED <<variant, players, bans, chat, nTaps, nTicks, acct>>

-----------------------------------------------------------------------------
(* ws.on('close') *)

\* (mutant) the handler refreshes the lists but leaves the entry in the map
Close_KeepsEntry(ws) ==
  /\ ws \in DOMAIN clients
  /\ running
  /\ last' = [ev |-> "close", ws |-> ws, held |-> clients[ws]]
  /\ readyState' = [readyState EXCEPT ![ws] = "CLOSING"]
  /\ out' = BroadcastPlayersAndRanks(readyState', players)
  /\ UNCHANGED <<variant, running, clients, players, bans, chat, nTaps, nTicks, acct>>

\* clients.delete(ws); broadcastPlayersAndRanks();
Close(ws) ==
  /\ ws \in DOMAIN clients
  /\ running
  /\ last' = [ev |-> "close", ws |-> ws, held |-> clients[ws]]
  /\ clients' = [c \in DOMAIN clients \ {ws} |-> clients[c]]
  /\ readyState' = [c \in DOMAIN clients \ {ws} |-> readyState[c]]
  /\ out' = BroadcastPlayersAndRanks(readyState', players)
  /\ UNCHANGED <<variant, running, players, bans, chat, nTaps, nTicks, acct>>

-----------------------------------------------------------------------------
(* setInterval(..., 1000): the auto-income tick *)

\* SELECT nickname, auto_per_sec FROM players WHERE auto_per_sec > 0
AutoRows(P) == {n \in DOMAIN P : P[n].auto_per_sec > 0}

\* (mutant) the loop stops after the first row
CreditAll_FirstOnly(P, ns) ==
  IF ns = <<>> THEN P
  ELSE UpdatePlayerAfterAuto(P, Head(ns), P[Head(ns)].auto_per_sec)

RECURSIVE CreditAll(_, _)
CreditAll(P, ns) ==
  IF ns = <<>> THEN P
  ELSE CreditAll(UpdatePlayerAfterAuto(P, Head(ns), P[Head(ns)].auto_per_sec), Tail(ns))

Tick ==
  /\ running
  /\ last' = [ev |-> "tick"]
  /\ AutoRows(players) # {} => nTicks < MaxTicks
  /\ nTicks' = IF AutoRows(players) # {} THEN nTicks + 1 ELSE nTicks
  /\ players' = CreditAll(players, SeqOfSet(AutoRows(players)))
  /\ acct' = [n \in DOMAIN acct |->
                IF n \in AutoRows(players)
                THEN [acct[n] EXCEPT !.inc = @ + players[n].auto_per_sec]
                ELSE acct[n]]
  /\ out' = BroadcastPlayersAndRanks(readyState, players')
  /\ UNCHANGED <<variant, running, clients, readyState, bans, chat, nTaps>>

-----------------------------------------------------------------------------
(* app.post('/upload-icon') *)

\* const nickname = String(req.body.nickname || '').slice(0,32)   (part_000)
\* const nickname = req.body.nickname                             (server/index.js)
UploadName(raw) == IF variant = PART0 THEN Slice0(String(OrEmpty(raw)), NameMax) ELSE raw

\* path.extname(req.file.originalname), lower-cased in part_000
UploadExt(ext) == IF variant = PART0 /\ ext = ".EXE" THEN ".exe" ELSE ext

\* if (!req.file || !nickname) 400 missing; if (!allowed.includes(ext)) 400 invalid_ext
UploadReason(hasFile, nickname, ext) ==
  IF ~hasFile \/ ~Truthy(nickname) THEN "missing"
  ELSE IF variant = PART0 /\ ext \notin {".png", ".jpg", ".jpeg", ".gif", ""}
       THEN "invalid_ext"
  ELSE "ok"

\* `/icons/${Date.now()}-${random}${ext}`
IconUrl(stamp, ext) == <<"/icons/", stamp, ext>>

Upload(raw, hasFile, stamp, rawExt) ==
  /\ running
  /\ last' = [ev |-> "upload", nickname |-> raw, file |-> hasFile, ext |-> rawExt]
  /\ LET nickname == UploadName(raw)
         ext == UploadExt(rawExt)
         reason == UploadReason(hasFile, nickname, ext)
         iconUrl == IconUrl(stamp, ext)
         player == FindPlayer(players, nickname)
     IN /\ IF reason # "ok"
           THEN /\ out' = << [op |-> "http", status |-> 400, error |-> reason] >>
                /\ UNCHANGED <<players, acct>>
           ELSE /\ out' = << [op |-> "http", status |-> 200, icon |-> iconUrl] >>
                /\ IF HasPlayer(players, nickname)
                   THEN /\ players' = UpdatePlayerCoinsTap(players, nickname,
                                         [player EXCEPT !.icon = iconUrl])
                        /\ UNCHANGED acct
                   ELSE /\ players' = CreatePlayer(players, nickname, iconUrl)
                        /\ acct' = AcctSet(acct, nickname, NewRow(iconUrl))
  /\ UNCHANGED <<variant, running, clients, readyState, bans, chat, nTaps, nTicks>>

-----------------------------------------------------------------------------
(* The server *)

InitWith(P, taps, ticks) ==
  /\ variant \in Variants
  /\ running = TRUE
  /\ clients = EmptyMap
  /\ readyState = EmptyMap
  /\ players = P
  /\ bans = {}
  /\ chat = <<>>
  /\ nTaps = taps
  /\ nTicks = ticks
  /\ acct = [n \in DOMAIN players |-> AcctOf(players[n])]
  /\ last = [ev |-> "start"]
  /\ out = <<>>

NextWith(E) ==
  \/ \E ws \in Conns : Connection(ws)
  \/ \E ws \in Conns, raw \in E.names, token \in E.tokens : SetName(ws, raw, token)
  \/ \E ws \in Conns : Tap(ws)
  \/ \E ws \in Conns, raw \in E.items : Buy(ws, raw)
  \/ \E ws \in Conns, raw \in E.texts : Chat(ws, raw)
  \/ \E ws \in Conns : Close(ws)
  \/ Tick
  \/ \E raw \in E.uploads, hasFile \in BOOLEAN, stamp \in E.stamps, ext \in E.exts :
       Upload(raw, hasFile, stamp, ext)

\* Sessions and moderation: a fresh database, no tap is accepted
Init == InitWith(EmptyMap, MaxTaps, MaxTicks)

Next == NextWith(Sessions)

Spec == Init /\ [][Next]_vars

\* The economy: bob has played before
InitEconomy == InitWith([n \in {Str_bob} |-> SeedRow], 0, 0)

NextEconomy == NextWith(Economy)

SpecEconomy == InitEconomy /\ [][NextEconomy]_vars

\* Moderation: a fresh database, no tap is accepted
InitModeration == InitWith(EmptyMap, MaxTaps, MaxTicks)

NextModeration ==
  \/ NextWith(Moderation)
  \/ \E ws \in Conns, raw \in Moderation.payloads : OtherMessage(ws, raw)

SpecModeration == InitModeration /\ [][NextModeration]_vars

\* Income: bob and al have 30 coins each, no tap is accepted
InitIncome == InitWith([n \in {Str_bob, Str_al} |-> SeedRow], MaxTaps, 0)

NextIncome == NextWith(Income)

SpecIncome == InitIncome /\ [][NextIncome]_vars

\* Lockout: a fresh database, no tap is accepted
InitLockout == InitWith(EmptyMap, MaxTaps, MaxTicks)

NextLockout == NextWith(Lockout)

SpecLockout == InitLockout /\ [][NextLockout]_vars

\* Solo: bob has played before
InitSolo == InitWith([n \in {Str_bob} |-> SeedRow], 0, 0)

NextSolo == NextWith(Solo)

SpecSolo == InitSolo /\ [][NextSolo]_vars

-----------------------------------------------------------------------------
(* Reading the record of a step *)

\* e is a sendTo call for ws carrying msg (whether or not the socket took it)
IsSendTo(e, ws, msg) == e.op = "sendTo" /\ e.to = ws /\ e.msg = msg

IsBroadcast(e, type) == e.op = "broadcast" /\ e.msg.type = type

IsReply(e, type) == e.op = "sendTo" /\ e.msg.type = type

Rejected(reason) == [type |-> "setNameResult", ok |-> FALSE, reason |-> reason]

Accepted(nickname) == [type |-> "setNameResult", ok |-> TRUE, nickname |-> nickname]

BuyRejected(reason) == [type |-> "buyResult", ok |-> FALSE, reason |-> reason]

\* the step answered ws with one rejection for `reason` and nothing else
AnswersReject(ws, reason) == Len(out') = 1 /\ IsSendTo(out'[1], ws, Rejected(reason))

\* the step bound ws to nickname: one setNameResult {ok:true}, then the ranks broadcast
AnswersAccept(ws, nickname) ==
  /\ Len(out') = 2
  /\ IsSendTo(out'[1], ws, Accepted(nickname))
  /\ IsBroadcast(out'[2], "ranks")
  /\ clients' = [clients EXCEPT ![ws] = nickname]

\* the nickname a setName message asks for, and its token
ReqName(l) == NormalizeName(l.nickname)

WrongToken(l) == l.adminToken # ADMIN_TOKEN

HeldBy(nickname) == {c \in DOMAIN clients : clients[c] = nickname}

Reserved(nickname) == ToLowerCase(nickname) = Str_admin

UniqueNames(C) ==
  \A c, d \in DOMAIN C : (c # d /\ C[c] # NULL) => C[c] # C[d]

StoreUnchanged == UNCHANGED <<players, bans, chat>>

SessionsUnchanged == UNCHANGED <<clients, readyState>>

-----------------------------------------------------------------------------
(* C1 *)

\* C1 as stated: no two connections hold the same nickname, and a setName for a
\* nickname that another connection claimed and still holds is answered inuse.
C1_FirstWinsOthersInuse ==
  [][ /\ UniqueNames(clients')
      /\ (last'.ev = "setName" /\ HeldBy(ReqName(last')) \ {last'.ws} # {})
           => AnswersReject(last'.ws, "inuse") ]_vars

\* C1 (amended): in every reachable state no two connections hold the same
\* non-null nickname; a setName for a nickname that some connection holds never
\* binds the requester, and it is answered inuse unless an earlier check of the
\* validation order rejects it (admin_auth for a wrong token, banned for a banned name).
C1_UniqueNicknames ==
  [][ /\ UniqueNames(clients')
      /\ (last'.ev = "setName" /\ HeldBy(ReqName(last')) # {})
           => /\ clients' = clients
              /\ IF Reserved(ReqName(last')) /\ WrongToken(last')
                 THEN AnswersReject(last'.ws, "admin_auth")
                 ELSE IF ReqName(last') \in bans
                 THEN AnswersReject(last'.ws, "banned")
                 ELSE AnswersReject(last'.ws, "inuse") ]_vars

\* a second connection asked for the name the first one holds and was answered inuse
C1_Witness ==
  /\ last.ev = "setName"
  /\ ReqName(last) = Str_bob
  /\ clients[last.ws] = NULL
  /\ \E d \in DOMAIN clients \ {last.ws} : clients[d] = Str_bob /\ readyState[d] = "OPEN"
  /\ Len(out) = 1
  /\ IsSendTo(out[1], last.ws, Rejected("inuse"))

-----------------------------------------------------------------------------
(* C2 *)

\* C2 as stated: a setName for "admin" succeeds if and only if the token is the
\* secret, and any other token is answered admin_auth.
C2_AdminIffToken ==
  [][ (last'.ev = "setName" /\ ReqName(last') = Str_admin)
        => IF WrongToken(last')
           THEN AnswersReject(last'.ws, "admin_auth")
           ELSE AnswersAccept(last'.ws, Str_admin) ]_vars

\* C2 (amended): a setName for the reserved name is answered admin_auth if and
\* only if the supplied token differs from the secret (an absent token included);
\* with the secret it succeeds unless the name is banned or already held by a
\* connection, and then it is answered banned, respectively inuse.
C2_AdminNeedsToken ==
  [][ (last'.ev = "setName" /\ Reserved(ReqName(last')))
        => IF WrongToken(last')
           THEN AnswersReject(last'.ws, "admin_auth") /\ clients' = clients
           ELSE IF ReqName(last') \in bans
           THEN AnswersReject(last'.ws, "banned") /\ clients' = clients
           ELSE IF HeldBy(ReqName(last')) # {}
           THEN AnswersReject(last'.ws, "inuse") /\ clients' = clients
           ELSE AnswersAccept(last'.ws, ReqName(last')) ]_vars

\* the administrator name was claimed with the secret: the requester holds it
C2_Witness ==
  /\ last.ev = "setName"
  /\ ReqName(last) = Str_admin
  /\ last.adminToken = ADMIN_TOKEN
  /\ clients[last.ws] = Str_admin
  /\ Len(out) = 2
  /\ IsSendTo(out[1], last.ws, Accepted(Str_admin))

-----------------------------------------------------------------------------
(* C3 *)

KickedAt(i) == out[i].op = "close"

\* C3: a /ban of a nickname held by a connection sends that connection one banned
\* notice and closes it once, then broadcasts one system notice; and no chat row
\* is recorded for a nickname while it is banned, so none after the ban command.
C3_BannedNicknameSilenced ==
  /\ (last.ev = "chat" /\ \E i \in DOMAIN out : KickedAt(i))
       => /\ Len(out) = 3
          /\ out[1].op = "sendTo" /\ out[1].msg.type = "banned"
          /\ out[2].op = "close" /\ out[2].ws = out[1].to
          /\ IsBroadcast(out[3], "system")
  /\ \A i \in DOMAIN out :
       (out[i].op = "broadcast" /\ out[i].msg.type = "chat")
         => out[i].msg.nickname \notin bans

-----------------------------------------------------------------------------
(* C4 *)

\* the target of an administrator's /bro command, or <<>> if the message is none
BroTarget(l) ==
  LET parts == Split(ChatText(l.text))
  IN IF clients[l.ws] = Str_admin /\ Len(parts) >= 2 /\ parts[1] = Str_bro
     THEN parts[2] ELSE <<>>

\* C4: while a ban row exists for a nickname, no setName binds a session to it
\* (the answer is banned, or admin_auth when the token check comes first),
\* whether or not the nickname has a player row; /bro removes the row, and then
\* a setName for it that passes the other checks succeeds.
C4_BanBlocksClaim ==
  [][ /\ (last'.ev = "setName" /\ ReqName(last') \in bans)
           => /\ clients' = clients
              /\ IF Reserved(ReqName(last')) /\ WrongToken(last')
                 THEN AnswersReject(last'.ws, "admin_auth")
                 ELSE AnswersReject(last'.ws, "banned")
      /\ (last'.ev = "chat" /\ BroTarget(last') # <<>>)
           => BroTarget(last') \notin bans'
      /\ ( /\ last'.ev = "setName"
           /\ ReqName(last') # <<>>
           /\ ReqName(last') \notin bans
           /\ ~(Reserved(ReqName(last')) /\ WrongToken(last'))
           /\ HeldBy(ReqName(last')) = {} )
           => AnswersAccept(last'.ws, ReqName(last')) ]_vars

\* bob, who has never played, is banned and is turned away
C4_Witness ==
  /\ last.ev = "setName"
  /\ ReqName(last) = Str_bob
  /\ Str_bob \in bans
  /\ Str_bob \notin DOMAIN players
  /\ Len(out) = 1
  /\ IsSendTo(out[1], last.ws, Rejected("banned"))

-----------------------------------------------------------------------------
(* C5 *)

SetNameResults(o) == {i \in DOMAIN o : IsReply(o[i], "setNameResult")}

\* C5: a setName is answered with exactly one setNameResult, and when it is
\* rejected the reason is the first that applies of empty, admin_auth, banned, inuse.
C5_ValidationOrder ==
  [][ last'.ev = "setName"
        => /\ Cardinality(SetNameResults(out')) = 1
           /\ ReqName(last') = <<>> => AnswersReject(last'.ws, "empty")
           /\ (ReqName(last') # <<>> /\ Reserved(ReqName(last')) /\ WrongToken(last'))
                => AnswersReject(last'.ws, "admin_auth")
           /\ ( /\ ReqName(last') \in bans
                /\ ~(Reserved(ReqName(last')) /\ WrongToken(last')) )
                => AnswersReject(last'.ws, "banned")
           /\ ( /\ HeldBy(ReqName(last')) # {}
                /\ ReqName(last') \notin bans
                /\ ~(Reserved(ReqName(last')) /\ WrongToken(last')) )
                => AnswersReject(last'.ws, "inuse") ]_vars

\* admin is banned and still held by the closing connection, the token is wrong:
\* all of admin_auth, banned and inuse apply and the answer is admin_auth
C5_Witness ==
  /\ last.ev = "setName"
  /\ ReqName(last) = Str_admin
  /\ WrongToken(last)
  /\ Str_admin \in bans
  /\ HeldBy(Str_admin) # {}
  /\ Len(out) = 1
  /\ IsSendTo(out[1], last.ws, Rejected("admin_auth"))

-----------------------------------------------------------------------------
(* C6 *)

\* C6: since a player's row was created or last written by its own purchase,
\* with coins c0, taps t0 and tap value v, N accepted taps and the ticks in
\* between leave taps = t0 + N and coins = c0 + N*v + the income those ticks
\* credited, whatever uploads, chats and other players' actions came in between.
C6_TapAccounting ==
  \A n \in DOMAIN players :
    /\ players[n].taps = acct[n].t0 + acct[n].n
    /\ players[n].tap_value = acct[n].v
    /\ players[n].coins = acct[n].c0 + acct[n].n * acct[n].v + acct[n].inc

\* bob bought auto income, then tapped twice around a tick and an icon upload
C6_Witness ==
  /\ Str_bob \in DOMAIN players
  /\ acct[Str_bob].n >= 2
  /\ acct[Str_bob].inc >= 1
  /\ players[Str_bob].icon # NULL
  /\ last.ev = "tap"

-----------------------------------------------------------------------------
(* C7 *)

NonNegative(P) == \A n \in DOMAIN P : P[n].coins >= 0 /\ P[n].tap_value >= 1

\* the nickname of the session a message came in on, before the step
Sender(l) == clients[l.ws]

\* C7: every player row has coins >= 0 and tap_value >= 1; a buy of an item
\* priced above the buyer's coins leaves the players table as it is and is
\* answered buyResult{ok:false, reason:not_enough}.
C7_CoinsNeverNegative ==
  [][ /\ NonNegative(players)
      /\ NonNegative(players')
      /\ ( /\ last'.ev = "buy"
           /\ Sender(last') # NULL
           /\ HasItem(ItemIdOf(last'.itemId))
           /\ players[Sender(last')].coins < FindItem(ItemIdOf(last'.itemId)).price )
           => /\ players' = players
              /\ Len(out') = 1
              /\ IsSendTo(out'[1], last'.ws, BuyRejected("not_enough")) ]_vars

\* bob, left with 20 coins, asked for the 30-coin item and was turned away
C7_Witness ==
  /\ last.ev = "buy"
  /\ last.itemId = Id_auto1
  /\ clients[last.ws] = Str_bob
  /\ players[Str_bob].coins = 20
  /\ Len(out) = 1
  /\ IsSendTo(out[1], last.ws, BuyRejected("not_enough"))

-----------------------------------------------------------------------------
(* C8 *)

Affordable(l) ==
  /\ l.ev = "buy"
  /\ Sender(l) # NULL
  /\ HasItem(ItemIdOf(l.itemId))
  /\ players[Sender(l)].coins >= FindItem(ItemIdOf(l.itemId)).price

\* C8: a successful buy takes the price off coins and raises tap_value (a tap
\* item) or auto_per_sec (an auto item) by the item's value, never both; taps,
\* icon, all other rows and the session map stay as they were.
C8_PurchaseEffect ==
  [][ Affordable(last')
        => LET n == Sender(last')
               item == FindItem(ItemIdOf(last'.itemId))
               old == players[n]
               new == players'[n]
           IN /\ new.coins = old.coins - item.price
              /\ item.type = "tap"
                   => /\ new.tap_value = old.tap_value + item.value
                      /\ new.auto_per_sec = old.auto_per_sec
              /\ item.type = "auto"
                   => /\ new.auto_per_sec = old.auto_per_sec + item.value
                      /\ new.tap_value = old.tap_value
              /\ new.taps = old.taps
              /\ new.icon = old.icon
              /\ DOMAIN players' = DOMAIN players
              /\ \A m \in DOMAIN players \ {n} : players'[m] = players[m]
              /\ SessionsUnchanged ]_vars

\* bob, with an icon uploaded, bought the auto-income item
C8_Witness ==
  /\ last.ev = "buy"
  /\ last.itemId = Id_auto1
  /\ clients[last.ws] = Str_bob
  /\ players[Str_bob].auto_per_sec = 1
  /\ players[Str_bob].tap_value = 1
  /\ players[Str_bob].coins = 0
  /\ players[Str_bob].icon # NULL
  /\ out[1].op = "sendTo" /\ out[1].msg.type = "buyResult" /\ out[1].msg.ok

-----------------------------------------------------------------------------
(* C9 *)

NotNamedError == [type |-> "error", error |-> "not_named"]

\* C9: a tap, buy or chat on a connection whose session is unclaimed is answered
\* with the not_named error, sent to that open connection and to no one else,
\* and changes no table and no session; the connection stays open.
C9_UnnamedGate ==
  [][ (last'.ev \in {"tap", "buy", "chat"} /\ Sender(last') = NULL)
        => /\ Len(out') = 1
           /\ IsSendTo(out'[1], last'.ws, NotNamedError)
           /\ out'[1].sent
           /\ StoreUnchanged
           /\ SessionsUnchanged
           /\ readyState'[last'.ws] = "OPEN" ]_vars

\* an unclaimed connection sent a chat while the other one holds a name
C9_Witness ==
  /\ last.ev = "chat"
  /\ last.text = Txt_hi
  /\ clients[last.ws] = NULL
  /\ \E d \in DOMAIN clients : clients[d] = Str_bob
  /\ Len(out) = 1
  /\ IsSendTo(out[1], last.ws, NotNamedError)

-----------------------------------------------------------------------------
(* C10 *)

IsRejection(e) ==
  /\ e.op = "sendTo"
  /\ e.msg.type \in {"setNameResult", "buyResult"}
  /\ ~e.msg.ok

\* C10: a step that rejects a setName (empty, admin_auth, banned, inuse) or a
\* buy (invalid, not_enough) sends that one reply to the requesting connection
\* only, broadcasts nothing, and leaves the players, bans and chat tables, the
\* session map (the requester's own nickname included) and every socket's state
\* as they were.
C10_RejectionsChangeNothing ==
  [][ (\E i \in DOMAIN out' : IsRejection(out'[i]))
        => /\ Len(out') = 1
           /\ out'[1].to = last'.ws
           /\ last'.ev \in {"setName", "buy"}
           /\ StoreUnchanged
           /\ SessionsUnchanged ]_vars

\* a connection that holds bob asked for the banned name admin and was turned
\* away; it still holds bob
C10_Witness ==
  /\ last.ev = "setName"
  /\ ReqName(last) = Str_admin
  /\ clients[last.ws] = Str_bob
  /\ Len(out) = 1
  /\ IsRejection(out[1])
  /\ out[1].msg.reason = "banned"

-----------------------------------------------------------------------------
(* C11 *)

\* the row of a player after one firing of the interval
Credited(row) ==
  IF row.auto_per_sec > 0 THEN [row EXCEPT !.coins = @ + row.auto_per_sec] ELSE row

\* C11: a firing of the interval adds auto_per_sec to the coins of every player
\* whose auto_per_sec is positive, leaves every other player and every other
\* column as they were, and sends exactly one ranks broadcast, carrying the
\* rows after the pass, however many players were credited.
C11_TickCreditsAutoIncome ==
  [][ last'.ev = "tick"
        => /\ DOMAIN players' = DOMAIN players
           /\ \A n \in DOMAIN players : players'[n] = Credited(players[n])
           /\ Len(out') = 1
           /\ IsBroadcast(out'[1], "ranks")
           /\ out'[1].msg.rows = PlayerRows(players')
           /\ UNCHANGED <<clients, readyState, bans, chat>> ]_vars

\* bob and al both bought auto income with all their coins; one firing then
\* credited both of them
C11_Witness ==
  /\ last.ev = "tick"
  /\ players[Str_bob].auto_per_sec = 1 /\ players[Str_bob].coins = 1
  /\ players[Str_al].auto_per_sec = 1 /\ players[Str_al].coins = 1
  /\ Len(out) = 1
  /\ IsBroadcast(out[1], "ranks")

-----------------------------------------------------------------------------
(* C12 *)

\* the text of a chat message after slicing and trimming, and its words
TextOf(l) == ChatText(l.text)

CmdOf(l) == ToLowerCase(Part(Split(TextOf(l)), 1))

\* the message is marker-prefixed text sent by the session holding "admin"
FromAdminWithMarker(l) ==
  l.ev = "chat" /\ Sender(l) = Str_admin /\ StartsWith(TextOf(l), "/")

\* ... and it is /ban or /bro with a target
RunsCommand(l) ==
  FromAdminWithMarker(l) /\ CmdOf(l) \in {Str_ban, Str_bro} /\ Truthy(TargetOf(TextOf(l)))

\* C12: marker-prefixed text from the administrator that is neither /ban nor
\* /bro with a target is silently ignored: no row is appended to the chat log,
\* nothing is broadcast, no reply is sent and the ban set is unchanged.
C12_OtherCommandsIgnored ==
  [][ (FromAdminWithMarker(last') /\ ~RunsCommand(last'))
        => /\ chat' = chat
           /\ out' = <<>>
           /\ bans' = bans ]_vars

-----------------------------------------------------------------------------
(* C13 *)

ChatBroadcasts(o) == {i \in DOMAIN o : IsBroadcast(o[i], "chat")}

\* C13: a chat message of a named session is appended to the log and broadcast
\* as one chat event exactly when its trimmed text is non-empty and it is not
\* marker-prefixed text of the session holding exactly "admin"; a /ban or /bro
\* that is run appends nothing; recorded text changes no ban row; and the log
\* only grows: no step changes or removes an entry.
C13_ChatRecordedIff ==
  [][ /\ Len(chat') >= Len(chat)
      /\ SubSeq(chat', 1, Len(chat)) = chat
      /\ (last'.ev = "chat" /\ Sender(last') # NULL)
           => IF Truthy(TextOf(last')) /\ ~FromAdminWithMarker(last')
              THEN /\ chat' = Append(chat, ChatRow(Sender(last'), TextOf(last')))
                   /\ Len(out') = 1
                   /\ IsBroadcast(out'[1], "chat")
                   /\ out'[1].msg.text = TextOf(last')
                   /\ bans' = bans
              ELSE /\ chat' = chat
                   /\ ChatBroadcasts(out') = {}
      /\ last'.ev # "chat" => chat' = chat ]_vars

-----------------------------------------------------------------------------
(* C20 *)

\* the sessions that hold exactly "admin"
Admins(C) == {c \in DOMAIN C : C[c] = Str_admin}

\* C20: the bans table changes only in a step that runs /ban or /bro for a
\* session holding exactly "admin", and a session comes to hold "admin" only by
\* a setName that carries the configured token; so no messages of connections
\* that never sent the token add or remove a ban row.
C20_BansOnlyByAdmin ==
  [][ /\ bans' # bans
           => /\ RunsCommand(last')
              /\ bans' = IF CmdOf(last') = Str_ban
                         THEN AddBan(bans, TargetOf(TextOf(last')))
                         ELSE RemoveBan(bans, TargetOf(TextOf(last')))
      /\ \A c \in Admins(clients') \ Admins(clients) :
           /\ last'.ev = "setName"
           /\ last'.ws = c
           /\ last'.adminToken = ADMIN_TOKEN ]_vars

\* the session holding "Admin" sent /ban bob, which was recorded as chat and
\* banned no one; then the session holding "admin" sent it and bob is banned
C20_Witness ==
  /\ last.ev = "chat"
  /\ last.text = Txt_ban_bob
  /\ clients[last.ws] = Str_admin
  /\ Str_bob \in bans
  /\ Len(chat) = 1
  /\ chat[1].nickname = Str_Admin
  /\ chat[1].text = Txt_ban_bob
  /\ \E d \in DOMAIN clients : clients[d] = Str_Admin

-----------------------------------------------------------------------------
(* C14 *)

RanksBroadcasts(o) == {i \in DOMAIN o : IsBroadcast(o[i], "ranks")}

\* a setName that bound the session, a buy that wrote the row
ClaimSucceeds == last'.ev = "setName" /\ clients' # clients

BuySucceeds == last'.ev = "buy" /\ players' # players

\* C14: a close and a firing of the interval send one ranks broadcast and
\* nothing else; a successful claim or purchase sends its setNameResult or
\* buyResult to the initiating connection and then one ranks broadcast; no
\* other step sends a ranks broadcast: an accepted tap sends only its tap
\* event and a recorded chat only its chat event.
C14_RanksBroadcastOnce ==
  [][ /\ last'.ev \in {"close", "tick"}
           => Len(out') = 1 /\ RanksBroadcasts(out') = {1}
      /\ ClaimSucceeds
           => /\ Len(out') = 2
              /\ IsSendTo(out'[1], last'.ws, Accepted(clients'[last'.ws]))
              /\ RanksBroadcasts(out') = {2}
      /\ BuySucceeds
           => /\ Len(out') = 2
              /\ IsSendTo(out'[1], last'.ws,
                          BuyOkMsg(Sender(last'), players'[Sender(last')]))
              /\ RanksBroadcasts(out') = {2}
      /\ (last'.ev \notin {"close", "tick"} /\ ~ClaimSucceeds /\ ~BuySucceeds)
           => RanksBroadcasts(out') = {}
      /\ (last'.ev = "tap" /\ players' # players)
           => Len(out') = 1 /\ IsBroadcast(out'[1], "tap")
      /\ (last'.ev = "chat" /\ chat' # chat)
           => Len(out') = 1 /\ IsBroadcast(out'[1], "chat") ]_vars

\* bob bought auto income while a second connection was open: the buyResult
\* went to bob's connection, then the ranks broadcast to both
C14_Witness ==
  /\ last.ev = "buy"
  /\ clients[last.ws] = Str_bob
  /\ Len(out) = 2
  /\ IsSendTo(out[1], last.ws, BuyOkMsg(Str_bob, players[Str_bob]))
  /\ IsBroadcast(out[2], "ranks")
  /\ out[2].to = Conns
  /\ Len(chat) = 1
  /\ players[Str_bob].taps > SeedRow.taps

-----------------------------------------------------------------------------
(* C15 *)

OpenConns == {c \in DOMAIN readyState : readyState[c] = "OPEN"}

\* C15: an accepted tap sends one broadcast, to every open connection, of a tap
\* event with exactly the fields nickname, coins, taps and tap value, holding
\* the player's values after the increment by its tap value.
C15_TapEvent ==
  [][ (last'.ev = "tap" /\ Sender(last') # NULL /\ Sender(last') \in DOMAIN players)
        => LET n == Sender(last')
           IN /\ players'[n].coins = players[n].coins + players[n].tap_value
              /\ players'[n].taps = players[n].taps + 1
              /\ Len(out') = 1
              /\ out'[1].op = "broadcast"
              /\ out'[1].to = OpenConns
              /\ out'[1].msg = [type |-> "tap", nickname |-> n,
                                coins |-> players'[n].coins,
                                taps |-> players'[n].taps,
                                tap_value |-> players'[n].tap_value] ]_vars

\* al is new and tapped once beside bob: both connections are sent
\* tap{al, coins 1, taps 1, tap value 1}
C15_Witness ==
  /\ last.ev = "tap"
  /\ clients[last.ws] = Str_al
  /\ Len(out) = 1
  /\ out[1].op = "broadcast"
  /\ out[1].to = Conns
  /\ out[1].msg = [type |-> "tap", nickname |-> Str_al, coins |-> 1, taps |-> 1,
                   tap_value |-> 1]

-----------------------------------------------------------------------------
(* C16 *)

\* C16: the close of a connection removes its session entry and no other,
\* leaves every player row as it was and sends one ranks broadcast; after it no
\* connection holds the nickname the session held, and a setName is answered
\* inuse only for a nickname some connection holds, so the nickname is claimable.
C16_CloseReleasesName ==
  [][ /\ last'.ev = "close"
           => /\ DOMAIN clients' = DOMAIN clients \ {last'.ws}
              /\ \A c \in DOMAIN clients' : clients'[c] = clients[c]
              /\ last'.held = clients[last'.ws]
              /\ last'.held # NULL => \A c \in DOMAIN clients' : clients'[c] # last'.held
              /\ players' = players
              /\ Len(out') = 1
              /\ IsBroadcast(out'[1], "ranks")
      /\ (last'.ev = "setName" /\ HeldBy(ReqName(last')) = {})
           => \A i \in DOMAIN out' : ~IsSendTo(out'[i], last'.ws, Rejected("inuse")) ]_vars

\* the connection that held bob closed while another was open: bob's row is
\* kept, no session holds bob, and the other connection is sent the ranks
C16_Witness ==
  /\ last.ev = "close"
  /\ last.held = Str_bob
  /\ Str_bob \in DOMAIN players
  /\ HeldBy(Str_bob) = {}
  /\ DOMAIN clients # {}
  /\ Len(out) = 1
  /\ IsBroadcast(out[1], "ranks")
  /\ out[1].to = DOMAIN clients

-----------------------------------------------------------------------------
(* C17 *)

\* C17: no payload is fatal: whatever a connection sends that is no setName,
\* tap, buy or chat (undecodable text, the JSON value null, an object of
\* unknown type), the process keeps running, every session and socket stays
\* as it was, and an undecodable payload gets no reply and changes no table.
C17_NoMessageIsFatal ==
  [][ last'.ev = "message"
        => /\ running'
           /\ SessionsUnchanged
           /\ JsonParse(last'.raw).threw => (out' = <<>> /\ StoreUnchanged) ]_vars

-----------------------------------------------------------------------------
(* C18 *)

\* C18: a setName is answered inuse only when a connection other than the
\* requester holds the nickname; a connection that asks again for the nickname
\* it holds itself is not answered inuse.
C18_InuseOnlyForOthers ==
  [][ (last'.ev = "setName"
         /\ \E i \in DOMAIN out' : IsSendTo(out'[i], last'.ws, Rejected("inuse")))
        => HeldBy(ReqName(last')) \ {last'.ws} # {} ]_vars

-----------------------------------------------------------------------------
(* C19 *)

\* the step stored an uploaded icon
UploadStored == last'.ev = "upload" /\ out'[1].status = 200

Counters(row) == <<row.coins, row.tap_value, row.auto_per_sec, row.taps>>

\* C19: an accepted upload sets the icon of its player to the new URL and
\* leaves that player's coins, tap value, auto income and taps, and every other
\* row, as they were; every other step (tap, buy, chat, tick, claim, close)
\* leaves the icon of every player as it was.  So a row always carries the
\* icon uploaded last together with the counters the other handlers produced.
C19_IconSurvives ==
  [][ /\ UploadStored
           => LET n == UploadName(last'.nickname)
              IN /\ players'[n].icon = out'[1].icon
                 /\ n \in DOMAIN players => Counters(players'[n]) = Counters(players[n])
                 /\ \A m \in DOMAIN players \ {n} : players'[m] = players[m]
      /\ ~UploadStored
           => \A n \in DOMAIN players : players'[n].icon = players[n].icon ]_vars

\* bob uploaded an icon, chatted, uploaded a second icon, bought auto income
\* and tapped: the row carries the second icon and the counters of the
\* purchase and the tap
C19_Witness ==
  /\ last.ev = "tap"
  /\ clients[last.ws] = Str_bob
  /\ players[Str_bob].icon = IconUrl("2", ".png")
  /\ players[Str_bob].auto_per_sec = 1
  /\ players[Str_bob].taps = SeedRow.taps + 1
  /\ players[Str_bob].coins = 1
  /\ Len(chat) = 1
  /\ chat[1].icon = IconUrl("1", ".png")

-----------------------------------------------------------------------------
(* C21 *)

\* "admin" is banned and no session holds it: a setName for it is answered
\* banned whatever the token, and only a session holding it can run /bro
LockedOut == Str_admin \in bans /\ Admins(clients) = {}

\* Once locked out, always locked out: no step of any client, with or without
\* the token, changes the bans table or binds a session to "admin".
LockedOutIsPermanent ==
  [][ LockedOut => (bans' = bans /\ Admins(clients') = {}) ]_vars

\* C21: every ban is reversible: no sequence of commands, /ban admin included,
\* leads to a state in which a nickname is banned and the administrator
\* identity can neither be claimed nor is held by any session, that is, in
\* which the bans table can never change again.
C21_EveryBanReversible == ~LockedOut

=============================================================================
